---------------------------- MODULE Spec2Model ----------------------------
(***************************************************************************)
(* The incremental analysis pipeline of gpt-chat-analysis:                 *)
(*   ConversationData.analyze_and_save_chat      (one job)                 *)
(*   ConversationData.analyze_all_chats_parallel (the batch scheduler)     *)
(*   ConversationData.analyze_single_chat        (one job, main thread)    *)
(*   FileValidator.verify_md_format              (the artifact validator)  *)
(*                                                                         *)
(* A text is abstracted to what the code reads of it: which of the         *)
(* required section markers and which of the generic-content indicators    *)
(* occur in it as substrings, and a tag (body) for the rest of its         *)
(* characters, so that two texts with the same markers can still differ.   *)
(* No marker or indicator is a substring of another one, so every          *)
(* combination is the abstraction of some text.                            *)
(***************************************************************************)
EXTENDS Integers, Sequences, FiniteSets, TLC

\* Number of conversations returned by _load_chat_data (one job each).
MaxChats == 2
ChatIds == 1..MaxChats

-----------------------------------------------------------------------------
(* Texts and files *)

\* file_validator.py:21-35, positions of the 13 literal heading strings
NumRequiredSections == 13
required_sections == 1..NumRequiredSections
\* file_validator.py:42-46, positions of the 3 indicator phrases
NumGenericIndicators == 3
generic_content_indicators == 1..NumGenericIndicators

MkText(secs, gen, body) ==
    [kind |-> "text", sections |-> secs, generic |-> gen, body |-> body]
\* the empty string ""
EmptyText == MkText({}, {}, "")
\* Python's None (response.choices[0].message.content may be None)
NoneValue == [kind |-> "None", sections |-> {}, generic |-> {}, body |-> ""]
\* no file at a path
Absent == [kind |-> "absent", sections |-> {}, generic |-> {}, body |-> ""]

\* Python truthiness of analysis in "if analysis:" (None and "" are falsy)
Truthy(t) == t.kind = "text" /\ t # EmptyText

\* one report name for every chat
FilePath_OneName(chat_id) == <<1, "md">>

\* filepath = os.path.join(output_dir, f"{chat_id}.md")
FilePath(chat_id) == <<chat_id, "md">>
\* one temporary name for the whole directory, not derived from the chat id
TempPath_Shared(filepath) == <<"tmp">>

\* temp_filepath = filepath + '.tmp'
TempPath(filepath) == Append(filepath, "tmp")

Paths == {FilePath(c) : c \in ChatIds} \cup {TempPath(FilePath(c)) : c \in ChatIds}


\* verify_md_format without the check of the indicator phrases
VerifyMdFormat_NoGenericCheck(files, file_path) ==
    /\ files[file_path].kind = "text"
    /\ \A section \in required_sections : section \in files[file_path].sections

\* verify_md_format with the last heading left out of required_sections
VerifyMdFormat_ShortList(files, file_path) ==
    /\ files[file_path].kind = "text"
    /\ files[file_path].generic = {}
    /\ \A section \in required_sections \ {NumRequiredSections} :
           section \in files[file_path].sections

\* FileValidator.verify_md_format(file_path) over the files of the directory:
\* an unreadable file is caught and gives False; an indicator phrase gives
\* False before the sections are looked at; then every section must occur.
VerifyMdFormat(files, file_path) ==
    IF files[file_path].kind # "text"
    THEN FALSE
    ELSE LET content == files[file_path]
             missing_sections == {section \in required_sections :
                                     section \notin content.sections}
         IN  IF \E indicator \in generic_content_indicators :
                    indicator \in content.generic
             THEN FALSE
             ELSE missing_sections = {}

-----------------------------------------------------------------------------
(* Messages and the extraction loop of analyze_and_save_chat *)

\* Python values the extraction handles: a str (a sequence of tokens, " " being
\* the separator ' '.join inserts), None, or a raised exception.
PyStr(s) == [py |-> "str", s |-> s]
PyNone == [py |-> "None", s |-> <<>>]
PyRaise == [py |-> "raise", s |-> <<>>]

\* One element of content['parts']: a plain string, or a dict with its own
\* content_type and an optional 'text' entry (haskey), whose value may be null.
StrPart(s) == [isdict |-> FALSE, content_type |-> "", haskey |-> FALSE, text |-> PyStr(s)]
DictPart(ctype, haskey, text) ==
    [isdict |-> TRUE, content_type |-> ctype, haskey |-> haskey, text |-> text]

\* A message as _load_chat_data keeps it; chars is len(str(msg)).
Msg(role, ctype, parts, text, chars) ==
    [role |-> role, content_type |-> ctype, parts |-> parts, text |-> text,
     chars |-> chars]

\* ' '.join(text_parts): TypeError when an item is not a str
RECURSIVE Join(_)
Join(text_parts) ==
    IF Len(text_parts) = 0 THEN PyStr(<<>>)
    ELSE IF Head(text_parts).py # "str" THEN PyRaise
    ELSE IF Len(text_parts) = 1 THEN Head(text_parts)
    ELSE LET rest == Join(Tail(text_parts))
         IN  IF rest.py # "str" THEN PyRaise
             ELSE PyStr(Head(text_parts).s \o <<" ">> \o rest.s)

\* text_parts of a multimodal message: part.get('text', '') of every dict part
\* whose content_type is text or audio_transcription
RECURSIVE TextParts(_)
TextParts(parts) ==
    IF Len(parts) = 0 THEN <<>>
    ELSE LET part == Head(parts)
             here == IF part.isdict /\ part.content_type \in {"text", "audio_transcription"}
                     THEN <<IF part.haskey THEN part.text ELSE PyStr(<<>>)>>
                     ELSE <<>>
         IN  here \o TextParts(Tail(parts))

\* the extraction falling back to parts[0] for a content type it does not know
ExtractText_FallbackToParts(msg) ==
    IF msg.content_type = "text"
    THEN IF Len(msg.parts) > 0
         THEN (IF msg.parts[1].isdict THEN PyStr(<<"{dict}">>) ELSE msg.parts[1].text)
         ELSE PyNone
    ELSE IF msg.content_type = "multimodal_text"
    THEN LET text_parts == TextParts(msg.parts)
         IN  IF Len(text_parts) > 0 THEN Join(text_parts) ELSE PyNone
    ELSE IF msg.content_type = "user_editable_context"
    THEN msg.text
    ELSE IF Len(msg.parts) > 0 /\ ~msg.parts[1].isdict THEN msg.parts[1].text
    ELSE PyNone

\* lines 96-111: the text of one message, None, or the exception of the join
ExtractText(msg) ==
    IF msg.content_type = "text"
    THEN IF Len(msg.parts) > 0
         THEN (IF msg.parts[1].isdict THEN PyStr(<<"{dict}">>) ELSE msg.parts[1].text)
         ELSE PyNone
    ELSE IF msg.content_type = "multimodal_text"
    THEN LET text_parts == TextParts(msg.parts)
         IN  IF Len(text_parts) > 0 THEN Join(text_parts) ELSE PyNone
    ELSE IF msg.content_type = "user_editable_context"
    THEN msg.text
    ELSE PyNone

\* lines 91-119: TRUE when the loop over the messages raises (it runs outside
\* the function's try block)
RECURSIVE ExtractionRaises(_)
ExtractionRaises(messages) ==
    IF Len(messages) = 0 THEN FALSE
    ELSE ExtractText(Head(messages)).py = "raise" \/ ExtractionRaises(Tail(messages))

\* lines 113-119: conversation, as the list of (role, text) lines appended
RECURSIVE Conversation(_)
Conversation(messages) ==
    IF Len(messages) = 0 THEN <<>>
    ELSE LET text == ExtractText(Head(messages))
         IN  (IF text.py = "str" /\ text.s # <<>>
              THEN <<<<Head(messages).role, text.s>>>>
              ELSE <<>>) \o Conversation(Tail(messages))

\* line 73: the admission ceiling
TokenCeiling == 120000

\* line 72: estimated_tokens = sum(len(str(msg)) / 4 for msg in messages),
\* kept in quarter tokens (every term is a multiple of 0.25, so the float sum
\* is exact)
RECURSIVE EstimatedQuarterTokens(_)
EstimatedQuarterTokens(messages) ==
    IF Len(messages) = 0 THEN 0
    ELSE Head(messages).chars + EstimatedQuarterTokens(Tail(messages))

\* the ceiling taken per message instead of over the sum
ExceedsLimit_PerMessage(messages) ==
    \E i \in 1..Len(messages) : messages[i].chars > 4 * TokenCeiling

\* line 73: estimated_tokens > 120000
ExceedsLimit(messages) == EstimatedQuarterTokens(messages) > 4 * TokenCeiling

\* The conversations a batch is run on.
SmallMsg == Msg("user", "text", <<StrPart(<<"hello">>)>>, PyNone, 100)
HalfMsg == Msg("assistant", "text", <<StrPart(<<"long">>)>>, PyNone, 2 * TokenCeiling)
HalfPlusMsg == Msg("user", "text", <<StrPart(<<"long">>)>>, PyNone, 2 * TokenCeiling + 1)
\* {"content_type": "multimodal_text", "parts": [{"content_type": "text", "text": null}]}
NullTextMsg == Msg("user", "multimodal_text", <<DictPart("text", TRUE, PyNone)>>, PyNone, 100)

\* {"content_type": "code", "parts": ["print(1)"], "text": "print(1)"}
CodeMsg == Msg("assistant", "code", <<StrPart(<<"print(1)">>)>>, PyStr(<<"print(1)">>), 100)
\* a content with parts and no content_type key: content.get('content_type') is None
NoTypeMsg == Msg("user", "None", <<StrPart(<<"untyped">>)>>, PyNone, 100)

Conversations ==
    { <<SmallMsg>>,                \* small
      <<HalfMsg, HalfPlusMsg>>,     \* estimate = 120000.25
      <<SmallMsg, NullTextMsg>> }   \* the join of the second message raises

\* analyze_single_chat is also run on the largest conversation admitted
\* (estimate = 120000 exactly), on messages of other content types, and on
\* conversations without any message or without any text.
SingleConversations ==
    Conversations
    \cup { <<HalfMsg, HalfMsg>>,
           <<CodeMsg, SmallMsg, NoTypeMsg>>,
           <<CodeMsg>>,
           <<>> }

-----------------------------------------------------------------------------
(* The gateway: self.openai_client.chat.completions.create, an opaque and     *)
(* fallible collaborator.  It answers with a text, with None, or raises.      *)

FullReport(body) == MkText(required_sections, {}, body)

\* The gateway is not deterministic: two answers with the same headings may
\* differ in the rest of their text.
ReportBodies == {"analysis A", "analysis B"}

\* Answers sampled for the jobs of a batch, which run interleaved.
BatchResponses ==
    {FullReport(b) : b \in ReportBodies}
    \cup { MkText(required_sections \ {NumRequiredSections}, {}, "analysis A"),
           MkText(required_sections, {1}, "analysis A"),
           EmptyText }

\* Answers of the single job of analyze_single_chat: every report with all or
\* all but one of the sections or none of them, with at most one indicator
\* phrase, and the falsy answers.
SingleResponses ==
    { MkText(secs, gen, b) :
        secs \in {required_sections} \cup {{}}
                 \cup {required_sections \ {s} : s \in required_sections},
        gen \in {{}} \cup {{i} : i \in generic_content_indicators},
        b \in {"analysis A"} }
    \cup {FullReport(b) : b \in ReportBodies}
    \cup {EmptyText, NoneValue}

\* What the call of lines 135-150 can raise: httpx.TimeoutException (line 152),
\* any other Exception, from create() or from response.choices[0] of a
\* malformed response (line 158), and KeyboardInterrupt (line 155).
GatewayExceptions == {"timeout", "exception"}

-----------------------------------------------------------------------------
(* State *)

VARIABLES
    mode,             \* "batch": analyze_all_chats_parallel; "single": analyze_single_chat
    chats,            \* chats = self._load_chat_data(): chat_id -> messages
    fs,               \* the output directory: path -> text, or Absent
    fsStart,          \* fs when the current run started
    job,              \* per chat_id, the call of analyze_and_save_chat
    mainPc,           \* position of the calling thread
    nsubmitted,       \* len(futures)
    collected,        \* futures already yielded by as_completed
    completed, successful, skipped, format_errors, api_errors,
    prevSuccessful,   \* chats whose job returned 'success' in the previous run
    placed,           \* chats whose final file was renamed into place by a job
    conv,             \* _load_chat_data: the conversation of conversations.json being loaded
    loadPc,           \* _load_chat_data: position in the loop body of lines 401-468
    node_id,          \* traverse_messages: the argument of the call being entered
    visited,          \* traverse_messages: the set shared by the recursive calls
    stack,            \* traverse_messages: the node of every call waiting, innermost last
    result,           \* traverse_messages: the list of the innermost call
    processed,        \* the nodes whose node_data was read, in order
    ncalls,           \* number of calls of traverse_messages made
    messages,         \* the list stored as chats[chat_id]
    walker,           \* app.py: the method whose parent-link walk is followed
    walkPc,           \* app.py: position of the walk
    current_node,     \* app.py: the local current_node of the while loop
    walked,           \* app.py: the local list messages of the while loop
    entry,            \* trends: who builds the TrendProcessor
    force_option,     \* trends: args.force_reprocess, or the constructor argument
    force_reprocess,  \* trends: self.force_reprocess
    sibling,          \* trends: per markdown file, its {name}.json in output_dir
    siblingStart,     \* trends: sibling when the run started
    tjob,             \* trends: per markdown file, the call of _process_file_with_cache
    trendPc,          \* trends: position of the thread in analyze_directory
    tcollected,       \* trends: futures already yielded by as_completed
    stats_list,       \* trends: the list stats_list
    tprocessed, tcached, terrors,   \* trends: processed, cached, errors
    summary,          \* trends: what analyze_directory returns
    rerun,            \* trends: TRUE in a second run over the same directories
    prevSummary,      \* trends: what the first run returned
    dirExists,        \* cleaning: os.path.exists(directory)
    unlisted,         \* cleaning: names of os.listdir(directory) not iterated yet
    invalid_files,    \* cleaning: the list invalid_files
    remove_failed,    \* cleaning: names whose os.remove raised
    cleanPc,          \* cleaning: position in verify_and_clean_md_files
    cleanRet          \* cleaning: what verify_and_clean_md_files returned

counters == <<completed, successful, skipped, format_errors, api_errors>>
batchVars == <<mode, chats, fs, fsStart, job, mainPc, nsubmitted, collected,
               counters, prevSuccessful, placed>>
loadVars == <<conv, loadPc, node_id, visited, stack, result, processed, ncalls,
              messages>>
walkVars == <<walker, walkPc, current_node, walked>>
trendVars == <<entry, force_option, force_reprocess, sibling, siblingStart, tjob,
               trendPc, tcollected, stats_list, tprocessed, tcached, terrors,
               summary, rerun, prevSummary>>
cleanVars == <<dirExists, unlisted, invalid_files, remove_failed, cleanPc,
               cleanRet>>
vars == <<mode, chats, fs, fsStart, job, mainPc, nsubmitted, collected,
          counters, prevSuccessful, placed, loadVars, walkVars, trendVars,
          cleanVars>>

NoPath == <<>>

\* A call that has not started: no local is bound yet.
NewJob ==
    [pc |-> "idle", existed |-> "unknown", conversation |-> <<>>,
     waited |-> 0, analysis |-> NoneValue,
     gw |-> "none", calls |-> 0, valid |-> "unknown",
     status |-> "none", path |-> NoPath]

Statuses == {"success", "skipped", "format_error", "api_error"}

\* A file some earlier tool or user left at a final path ("Existing analysis").
PriorFile == MkText({}, {}, "Existing analysis")

\* No conversation is being loaded: chats is already there.
LoadIdle ==
    /\ conv = [keys |-> {}, mapping |-> <<>>, current_node |-> 0, messages |-> <<>>]
    /\ loadPc = "off"
    /\ node_id = 0
    /\ visited = {}
    /\ stack = <<>>
    /\ result = <<>>
    /\ processed = <<>>
    /\ ncalls = 0
    /\ messages = <<>>

\* No walk of app.py is running.
WalkIdle ==
    /\ walker = "none"
    /\ walkPc = "off"
    /\ current_node = 0
    /\ walked = <<>>

\* No trend run is going on.
TrendIdle ==
    /\ entry = "none"
    /\ force_option = FALSE
    /\ force_reprocess = FALSE
    /\ sibling = <<>>
    /\ siblingStart = <<>>
    /\ tjob = <<>>
    /\ trendPc = "off"
    /\ tcollected = {}
    /\ stats_list = <<>>
    /\ tprocessed = 0 /\ tcached = 0 /\ terrors = 0
    /\ summary = <<>>
    /\ rerun = FALSE
    /\ prevSummary = <<>>

\* verify_and_clean_md_files is not running.
CleanIdle ==
    /\ dirExists = TRUE
    /\ unlisted = {}
    /\ invalid_files = <<>>
    /\ remove_failed = {}
    /\ cleanPc = "off"
    /\ cleanRet = <<>>

Init ==
    /\ LoadIdle
    /\ WalkIdle
    /\ TrendIdle
    /\ CleanIdle
    /\ mode \in {"batch", "single"}
    /\ chats \in [ChatIds -> IF mode = "batch" THEN Conversations
                                ELSE SingleConversations]
    /\ \E existing \in SUBSET ChatIds :
          fs = [p \in Paths |->
                  IF \E c \in existing : p = FilePath(c) THEN PriorFile ELSE Absent]
    /\ fsStart = fs
    /\ job = [c \in ChatIds |-> NewJob]
    /\ mainPc = IF mode = "batch" THEN "submit" ELSE "single"
    /\ nsubmitted = 0
    /\ collected = {}
    /\ completed = 0 /\ successful = 0 /\ skipped = 0
    /\ format_errors = 0 /\ api_errors = 0
    /\ prevSuccessful = {}
    /\ placed = {}


-----------------------------------------------------------------------------
(* analyze_and_save_chat(chat_id, messages, output_dir), step by step *)

\* line 136: httpx.Client(timeout=60.0)
ApiTimeoutSeconds == 60

\* the longest wait followed, in units of ApiTimeoutSeconds
MaxWait == 2

\* os.cpu_count() of the machine; 0 stands for None (both are falsy)
CpuCount == 1

Min(a, b) == IF a < b THEN a ELSE b

\* configuration.py line 159: max_workers = min(8, os.cpu_count() or 4)
ConfigMaxWorkers == Min(8, IF CpuCount = 0 THEN 4 ELSE CpuCount)

\* line 206: ThreadPoolExecutor() is built without max_workers, so the pool
\* takes the library default min(32, (os.cpu_count() or 1) + 4)
PoolWorkers == Min(32, (IF CpuCount = 0 THEN 1 ELSE CpuCount) + 4)

\* the jobs a worker thread of the pool is executing
RunningJobs == {c \in ChatIds : job[c].pc \notin {"idle", "pending", "returned", "raised"}}

\* a call that ended in an error put back in the queue
Return_Requeue(j, filepath, status) ==
    IF status \in {"api_error", "format_error"}
    THEN [j EXCEPT !.pc = "pending", !.waited = 0]
    ELSE [j EXCEPT !.pc = "returned", !.path = filepath, !.status = status,
                   !.waited = 0]

\* return filepath, status (the locals are kept as the record of the call)
Return(j, filepath, status) ==
    [j EXCEPT !.pc = "returned", !.path = filepath, !.status = status,
              !.waited = 0]

\* the existence check made on the temporary name
Exists_TempName(files, filepath) == files[Append(filepath, "tmp")] # Absent

\* the existence check switched off
Exists_Never(files, filepath) == FALSE

\* line 67: os.path.exists(filepath)
Exists(files, filepath) == files[filepath] # Absent

\* the timeout clause returning a status of its own
StatusOfException_Timeout(kind) ==
    CASE kind = "timeout" -> "timeout"
      [] kind = "interrupt" -> "cancelled"
      [] OTHER -> "api_error"

\* lines 152-160: the status each except clause of the call returns
StatusOfException(kind) ==
    CASE kind = "timeout" -> "api_error"
      [] kind = "interrupt" -> "cancelled"
      [] OTHER -> "api_error"

\* the temporary file removed on both branches, the rename forgotten
FilesAfterValidation_AlwaysRemove(files, filepath, temp_filepath, ok) ==
    [files EXCEPT ![temp_filepath] = Absent]

\* the two branches swapped: removed when valid, renamed when not
FilesAfterValidation_Swapped(files, filepath, temp_filepath, ok) ==
    IF ok
    THEN [files EXCEPT ![temp_filepath] = Absent]
    ELSE [files EXCEPT ![filepath] = files[temp_filepath], ![temp_filepath] = Absent]

\* the rename done whatever the validation said
FilesAfterValidation_AlwaysRename(files, filepath, temp_filepath, ok) ==
    [files EXCEPT ![filepath] = files[temp_filepath], ![temp_filepath] = Absent]

\* lines 173-190: the directory after validation: the temporary file renamed
\* to the final path when valid, removed otherwise
FilesAfterValidation(files, filepath, temp_filepath, ok) ==
    IF ok
    THEN [files EXCEPT ![filepath] = files[temp_filepath], ![temp_filepath] = Absent]
    ELSE [files EXCEPT ![temp_filepath] = Absent]

\* lines 64-75: a worker of the pool (or the main thread in single mode) starts
\* the call; it returns 'skipped' when the report exists or the estimate
\* exceeds the ceiling.  ThreadPoolExecutor() has min(32, cpu_count + 4) >= 5
\* workers, more than the batch has jobs, so a pending job can always start.
JobStart(c) ==
    /\ job[c].pc = "pending"
    /\ mode = "batch" => Cardinality(RunningJobs) < PoolWorkers
    /\ LET filepath == FilePath(c)
           j == [job[c] EXCEPT !.existed = IF Exists(fs, filepath) THEN "yes" ELSE "no"]
       IN  job' = [job EXCEPT ![c] =
                     IF Exists(fs, filepath) THEN Return(j, filepath, "skipped")
                     ELSE IF ExceedsLimit(chats[c]) THEN Return(j, filepath, "skipped")
                     ELSE [j EXCEPT !.pc = "prepare"]]
    /\ UNCHANGED <<loadVars, walkVars, trendVars, cleanVars, mode, chats, fs, fsStart, mainPc, nsubmitted, collected,
                   counters, prevSuccessful, placed>>

\* lines 78-144: the extraction loop, outside any try block, then the request
\* to the gateway.  An exception of the loop leaves the function.
Prepare(c) ==
    /\ job[c].pc = "prepare"
    /\ job' = [job EXCEPT ![c] =
                 IF ExtractionRaises(chats[c])
                 THEN [@ EXCEPT !.pc = "raised"]
                 ELSE [@ EXCEPT !.pc = "calling", !.calls = @ + 1,
                                !.conversation = Conversation(chats[c])]]
    /\ UNCHANGED <<loadVars, walkVars, trendVars, cleanVars, mode, chats, fs, fsStart, mainPc, nsubmitted, collected,
                   counters, prevSuccessful, placed>>

\* lines 137-150: the gateway answers; analysis = response.choices[0].message.content
GatewayReturns(c) ==
    /\ job[c].pc = "calling"
    /\ \E resp \in (IF mode = "batch" THEN BatchResponses ELSE SingleResponses) :
          job' = [job EXCEPT ![c] = [@ EXCEPT !.pc = "got", !.gw = "response",
                                                !.analysis = resp, !.waited = 0]]
    /\ UNCHANGED <<loadVars, walkVars, trendVars, cleanVars, mode, chats, fs, fsStart, mainPc, nsubmitted, collected,
                   counters, prevSuccessful, placed>>

\* lines 136-144: the gateway has not answered yet and a further
\* ApiTimeoutSeconds pass.  The httpx.Client opened with timeout=60.0 at line
\* 136 is not the client the request goes through (self.openai_client, built
\* by OpenAI() at line 25), so no timer of the method ends the wait.
Tick(c) ==
    /\ job[c].pc = "calling"
    /\ job[c].waited < MaxWait * ApiTimeoutSeconds
    /\ job' = [job EXCEPT ![c] = [@ EXCEPT !.waited = @ + ApiTimeoutSeconds]]
    /\ UNCHANGED <<loadVars, walkVars, trendVars, cleanVars, mode, chats, fs, fsStart, mainPc, nsubmitted, collected,
                   counters, prevSuccessful, placed>>

\* lines 152-154, 158-160: the call raises an Exception
GatewayRaises(c) ==
    /\ job[c].pc = "calling"
    /\ \E kind \in GatewayExceptions :
          job' = [job EXCEPT ![c] =
                    Return([@ EXCEPT !.gw = kind], FilePath(c), StatusOfException(kind))]
    /\ UNCHANGED <<loadVars, walkVars, trendVars, cleanVars, mode, chats, fs, fsStart, mainPc, nsubmitted, collected,
                   counters, prevSuccessful, placed>>

\* lines 155-157: Ctrl-C during the call.  CPython raises KeyboardInterrupt in
\* the main thread only, so only the job of analyze_single_chat sees it.
GatewayInterrupted(c) ==
    /\ mode = "single"
    /\ job[c].pc = "calling"
    /\ job' = [job EXCEPT ![c] =
                 Return([@ EXCEPT !.gw = "interrupt"], FilePath(c),
                        StatusOfException("interrupt"))]
    /\ UNCHANGED <<loadVars, walkVars, trendVars, cleanVars, mode, chats, fs, fsStart, mainPc, nsubmitted, collected,
                   counters, prevSuccessful, placed>>

\* lines 163-169, 192: a truthy analysis is written to the temporary file;
\* a falsy one ends the call with 'api_error'
WriteTemp(c) ==
    /\ job[c].pc = "got"
    /\ IF Truthy(job[c].analysis)
       THEN /\ fs' = [fs EXCEPT ![TempPath(FilePath(c))] = job[c].analysis]
            /\ job' = [job EXCEPT ![c] = [@ EXCEPT !.pc = "written"]]
       ELSE /\ fs' = fs
            /\ job' = [job EXCEPT ![c] = Return(@, FilePath(c), "api_error")]
    /\ UNCHANGED <<loadVars, walkVars, trendVars, cleanVars, mode, chats, fsStart, mainPc, nsubmitted, collected,
                   counters, prevSuccessful, placed>>

\* line 173: FileValidator.verify_md_format(temp_filepath)
Validate(c) ==
    /\ job[c].pc = "written"
    /\ job' = [job EXCEPT ![c] =
                 [@ EXCEPT !.pc = "validated",
                           !.valid = IF VerifyMdFormat(fs, TempPath(FilePath(c)))
                                     THEN "yes" ELSE "no"]]
    /\ UNCHANGED <<loadVars, walkVars, trendVars, cleanVars, mode, chats, fs, fsStart, mainPc, nsubmitted, collected,
                   counters, prevSuccessful, placed>>

\* lines 174-190: rename and return 'success', or remove and return 'format_error'
Finish(c) ==
    /\ job[c].pc = "validated"
    /\ LET filepath == FilePath(c)
           ok == job[c].valid = "yes"
       IN  /\ fs' = FilesAfterValidation(fs, filepath, TempPath(filepath), ok)
           /\ job' = [job EXCEPT ![c] =
                        Return(@, filepath, IF ok THEN "success" ELSE "format_error")]
           /\ placed' = IF fs'[filepath] # fs[filepath] THEN placed \cup {c} ELSE placed
    /\ UNCHANGED <<loadVars, walkVars, trendVars, cleanVars, mode, chats, fsStart, mainPc, nsubmitted, collected,
                   counters, prevSuccessful>>

-----------------------------------------------------------------------------
(* analyze_all_chats_parallel: the calling thread *)

Finished(c) == job[c].pc \in {"returned", "raised"}

\* the tally without the format_error branch
Tally_NoFormatError(status, counts) ==
    CASE status = "success" -> [counts EXCEPT ![1] = @ + 1]
      [] status = "skipped" -> [counts EXCEPT ![2] = @ + 1]
      [] status = "api_error" -> [counts EXCEPT ![4] = @ + 1]
      [] OTHER -> counts

\* every status counted twice
Tally_Twice(status, counts) ==
    CASE status = "success" -> [counts EXCEPT ![1] = @ + 2]
      [] status = "skipped" -> [counts EXCEPT ![2] = @ + 2]
      [] status = "format_error" -> [counts EXCEPT ![3] = @ + 2]
      [] status = "api_error" -> [counts EXCEPT ![4] = @ + 2]
      [] OTHER -> counts

\* lines 228-235: the counters <<successful, skipped, format_errors, api_errors>>
\* after one collected status
Tally(status, counts) ==
    CASE status = "success" -> [counts EXCEPT ![1] = @ + 1]
      [] status = "skipped" -> [counts EXCEPT ![2] = @ + 1]
      [] status = "format_error" -> [counts EXCEPT ![3] = @ + 1]
      [] status = "api_error" -> [counts EXCEPT ![4] = @ + 1]
      [] OTHER -> counts

\* lines 208-215: executor.submit for the next chat of chats.items()
Submit(c) ==
    /\ mode = "batch"
    /\ mainPc = "submit"
    /\ c = nsubmitted + 1
    /\ job' = [job EXCEPT ![c] = [@ EXCEPT !.pc = "pending"]]
    /\ nsubmitted' = nsubmitted + 1
    /\ mainPc' = IF nsubmitted' = MaxChats THEN "collect" ELSE "submit"
    /\ UNCHANGED <<loadVars, walkVars, trendVars, cleanVars, mode, chats, fs, fsStart, collected, counters,
                   prevSuccessful, placed>>

\* the futures waited for in the order of their submission
Yielded_InSubmissionOrder(c, coll) ==
    /\ c \notin coll
    /\ Finished(c)
    /\ \A d \in ChatIds : d < c => d \in coll

\* line 224: concurrent.futures.as_completed(futures) yields any future that
\* has finished and was not yielded before
Yielded(c, coll) ==
    /\ c \notin coll
    /\ Finished(c)

\* lines 224-243: as_completed yields a finished future; completed += 1;
\* future.result() re-raises the exception of a call that raised, which
\* leaves the loop and the method; otherwise the status is tallied.  After the
\* last future the summary is printed.
Collect(c) ==
    /\ mode = "batch"
    /\ mainPc = "collect"
    /\ Yielded(c, collected)
    /\ completed' = completed + 1
    /\ collected' = collected \cup {c}
    /\ IF job[c].pc = "raised"
       THEN /\ mainPc' = "raised"
            /\ UNCHANGED <<successful, skipped, format_errors, api_errors>>
       ELSE /\ LET counts == Tally(job[c].status,
                                   <<successful, skipped, format_errors, api_errors>>)
               IN  /\ successful' = counts[1]
                   /\ skipped' = counts[2]
                   /\ format_errors' = counts[3]
                   /\ api_errors' = counts[4]
            /\ mainPc' = IF collected' = ChatIds THEN "done" ELSE "collect"
    /\ UNCHANGED <<loadVars, walkVars, trendVars, cleanVars, mode, chats, fs, fsStart, job, nsubmitted, prevSuccessful, placed>>

\* The method is run again over the same input and output directory, once the
\* executor of the previous run has shut down (every job has ended).
Rerun ==
    /\ mode = "batch"
    /\ mainPc \in {"done", "raised"}
    /\ \A c \in ChatIds : Finished(c)
    /\ prevSuccessful' = {c \in ChatIds : job[c].status = "success"}
    /\ fsStart' = fs
    /\ job' = [c \in ChatIds |-> NewJob]
    /\ mainPc' = "submit"
    /\ nsubmitted' = 0
    /\ collected' = {}
    /\ completed' = 0 /\ successful' = 0 /\ skipped' = 0
    /\ format_errors' = 0 /\ api_errors' = 0
    /\ UNCHANGED <<loadVars, walkVars, trendVars, cleanVars, mode, chats, fs, placed>>

-----------------------------------------------------------------------------
(* analyze_single_chat(chat_id): one call, in the main thread *)

\* lines 34-48: the call for the chosen chat
SingleStart(c) ==
    /\ mode = "single"
    /\ mainPc = "single"
    /\ job' = [job EXCEPT ![c] = [@ EXCEPT !.pc = "pending"]]
    /\ mainPc' = "running"
    /\ UNCHANGED <<loadVars, walkVars, trendVars, cleanVars, mode, chats, fs, fsStart, nsubmitted, collected, counters,
                   prevSuccessful, placed>>

\* lines 44-50: the call returns and the status is printed, or its exception
\* leaves analyze_single_chat
SingleEnd(c) ==
    /\ mode = "single"
    /\ mainPc = "running"
    /\ Finished(c)
    /\ mainPc' = IF job[c].pc = "raised" THEN "raised" ELSE "done"
    /\ UNCHANGED <<loadVars, walkVars, trendVars, cleanVars, mode, chats, fs, fsStart, job, nsubmitted, collected, counters,
                   prevSuccessful, placed>>

-----------------------------------------------------------------------------

Next ==
    \/ \E c \in ChatIds : Submit(c)
    \/ \E c \in ChatIds : JobStart(c)
    \/ \E c \in ChatIds : Prepare(c)
    \/ \E c \in ChatIds : GatewayReturns(c)
    \/ \E c \in ChatIds : Tick(c)
    \/ \E c \in ChatIds : GatewayRaises(c)
    \/ \E c \in ChatIds : GatewayInterrupted(c)
    \/ \E c \in ChatIds : WriteTemp(c)
    \/ \E c \in ChatIds : Validate(c)
    \/ \E c \in ChatIds : Finish(c)
    \/ \E c \in ChatIds : Collect(c)
    \/ Rerun
    \/ \E c \in ChatIds : SingleStart(c)
    \/ \E c \in ChatIds : SingleEnd(c)

Spec == Init /\ [][Next]_vars

\* A step of a thread that is not waiting for anything outside the program:
\* the calling thread submits and collects, a worker goes on with its job, and
\* the gateway answers or raises.  (Tick is the gateway not answering yet and
\* Rerun a new invocation: neither has to happen.)
Progress ==
    \/ \E c \in ChatIds : Submit(c)
    \/ \E c \in ChatIds : JobStart(c)
    \/ \E c \in ChatIds : Prepare(c)
    \/ \E c \in ChatIds : GatewayReturns(c)
    \/ \E c \in ChatIds : GatewayRaises(c)
    \/ \E c \in ChatIds : WriteTemp(c)
    \/ \E c \in ChatIds : Validate(c)
    \/ \E c \in ChatIds : Finish(c)
    \/ \E c \in ChatIds : Collect(c)
    \/ \E c \in ChatIds : SingleStart(c)
    \/ \E c \in ChatIds : SingleEnd(c)

\* The threads are scheduled and every gateway call eventually returns or
\* raises.
SpecFair == Init /\ [][Next]_vars /\ WF_vars(Progress)

-----------------------------------------------------------------------------
(* _load_chat_data: one conversation of conversations.json is turned into the *)
(* message list stored as chats[chat_id] (lines 401-468).                     *)

\* the largest number of node ids a mapping refers to
MaxNodes == 3
NodeIds == 1..MaxNodes
\* None as a node id (falsy, as the empty string is)
NoNode == 0

\* What the message of one node may be, besides a plain text message.
MessageKinds ==
    {"system", "hidden", "no_message", "no_parts", "empty_part", "blank_part",
     "image_part", "context", "context_parts"}

\* node_data['message'] of node n: author, content (and the hidden flag of its
\* metadata, kept beside it); the text names the node.  "context" is a
\* user_editable_context content with a text field and no parts,
\* "context_parts" one with a text field and parts.
NodeMessage(n, kind) ==
    Msg(IF kind = "system" THEN "system"
        ELSE IF n % 2 = 1 THEN "user" ELSE "assistant",
        IF kind = "image_part" THEN "multimodal_text"
        ELSE IF kind \in {"context", "context_parts"} THEN "user_editable_context"
        ELSE "text",
        CASE kind \in {"no_parts", "context"} -> <<>>
          [] kind = "empty_part" -> <<StrPart(<<>>)>>
          [] kind = "blank_part" -> <<StrPart(<<" ", " ">>)>>
          [] kind = "image_part" -> <<DictPart("image_asset_pointer", FALSE, PyNone)>>
          [] OTHER -> <<StrPart(<<"m", ToString(n)>>)>>,
        IF kind \in {"context", "context_parts"}
        THEN PyStr(<<"about", ToString(n)>>) ELSE PyNone,
        100)

\* mapping[n]: {"parent": parent, "message": {...}}
Node(n, parent, kind) ==
    [inmap |-> TRUE, parent |-> parent, hasmsg |-> kind # "no_message",
     hidden |-> kind = "hidden", message |-> NodeMessage(n, kind)]

\* n is no key of mapping: mapping.get(n) is None
AbsentNode ==
    [inmap |-> FALSE, parent |-> NoNode, hasmsg |-> FALSE, hidden |-> FALSE,
     message |-> Msg("", "", <<>>, PyNone, 0)]

\* A conversation of the export shape: the keys of mapping are 1..k, node n
\* has parent parents[n], node special carries a message of the given kind and
\* every other node a plain text message.
TreeConversation(k, parents, special, kind, cn) ==
    [keys |-> {"mapping", "current_node"},
     mapping |-> [n \in NodeIds |->
                    IF n <= k
                    THEN Node(n, parents[n], IF n = special THEN kind ELSE "text")
                    ELSE AbsentNode],
     current_node |-> cn,
     messages |-> <<>>]

\* A conversation of the flat shape: {"id", "create_time", "messages": [{role, content}]}
FlatConversation(ms) ==
    [keys |-> {"messages"},
     mapping |-> [n \in NodeIds |-> AbsentNode],
     current_node |-> NoNode,
     messages |-> ms]

\* the messages lists of the flat conversations loaded
FlatMessages ==
    { <<>>,
      << [role |-> "user", content |-> "Hello"] >>,
      << [role |-> "user", content |-> "Hello"],
         [role |-> "assistant", content |-> "Hi there"] >> }

\* line 403: mapping = conv.get('mapping', {})
GetMapping(c) ==
    IF "mapping" \in c.keys THEN c.mapping ELSE [n \in NodeIds |-> AbsentNode]

\* line 404: current_node = conv.get('current_node')
GetCurrentNode(c) == IF "current_node" \in c.keys THEN c.current_node ELSE NoNode

\* len(mapping)
MappingSize(c) == Cardinality({n \in NodeIds : GetMapping(c)[n].inmap})

\* the visited set never consulted
InVisited_Never(n, vis) == FALSE

\* line 417: node_id in visited
InVisited(n, vis) == n \in vis

\* the test of node_data left out
NodeDataMissing_Never(node_data) == FALSE

\* lines 421-423: node_data = mapping.get(node_id); if not node_data
NodeDataMissing(node_data) == ~node_data.inmap

\* line 450: parts and parts[0] (a non-empty str, or a dict with a key)
PartsTruthy(parts) ==
    /\ Len(parts) > 0
    /\ parts[1].isdict \/ parts[1].text.s # <<>>

\* lines 436-450: the message is appended to the result
KeepMessage(node) ==
    /\ node.hasmsg
    /\ node.message.role # "system"
    /\ ~node.hidden
    /\ PartsTruthy(node.message.parts)

\* the own message put in front of what the call on the parent returned
WithOwnMessage_First(parent_result, node) ==
    IF KeepMessage(node) THEN <<node.message>> \o parent_result ELSE parent_result

\* lines 428-460: result holds what the call on the parent returned, then the
\* own message is appended when it is kept
WithOwnMessage(parent_result, node) ==
    IF KeepMessage(node) THEN Append(parent_result, node.message) ELSE parent_result

\* The batch is not running while the file is loaded.
BatchIdle ==
    /\ mode = "load"
    /\ chats = [c \in ChatIds |-> <<>>]
    /\ fs = [p \in Paths |-> Absent]
    /\ fsStart = fs
    /\ job = [c \in ChatIds |-> NewJob]
    /\ mainPc = "load"
    /\ nsubmitted = 0
    /\ collected = {}
    /\ completed = 0 /\ successful = 0 /\ skipped = 0
    /\ format_errors = 0 /\ api_errors = 0
    /\ prevSuccessful = {}
    /\ placed = {}

InitLoad ==
    /\ BatchIdle
    /\ WalkIdle
    /\ TrendIdle
    /\ CleanIdle
    \* every parent is None or any id (an id above k is a dangling link, a
    \* link to a descendant closes a cycle); current_node is None or any id
    /\ \/ \E k \in 0..MaxNodes, cn \in {NoNode} \cup NodeIds,
             parents \in [NodeIds -> {NoNode} \cup NodeIds] :
             /\ \A n \in NodeIds : n > k => parents[n] = NoNode
             /\ \E special \in 0..k, kind \in MessageKinds :
                   /\ special = 0 => kind = "system"
                   /\ conv = TreeConversation(k, parents, special, kind, cn)
       \/ \E ms \in FlatMessages : conv = FlatConversation(ms)
    /\ loadPc = "start"
    /\ node_id = NoNode
    /\ visited = {}
    /\ stack = <<>>
    /\ result = <<>>
    /\ processed = <<>>
    /\ ncalls = 0
    /\ messages = <<>>

\* lines 402-404, 463-468: messages = []; the traversal starts only from a
\* truthy current_node, otherwise chats[chat_id] = []
LoadStart ==
    /\ loadPc = "start"
    /\ IF GetCurrentNode(conv) # NoNode
       THEN /\ node_id' = GetCurrentNode(conv)
            /\ loadPc' = "call"
            /\ UNCHANGED messages
       ELSE /\ loadPc' = "done"
            /\ messages' = <<>>
            /\ UNCHANGED node_id
    /\ UNCHANGED <<batchVars, walkVars, trendVars, cleanVars, conv, visited, stack, result, processed, ncalls>>

\* lines 413-431: traverse_messages(node_id, visited) is entered.  It returns
\* [] for a node already visited or without node_data; otherwise it calls
\* itself on a truthy parent, or goes on to its own message.
TraverseCall ==
    /\ loadPc = "call"
    /\ ncalls' = ncalls + 1
    /\ LET node_data == GetMapping(conv)[node_id]
           returned == IF stack = <<>> THEN "returned" ELSE "own"
       IN  IF InVisited(node_id, visited)
           THEN /\ result' = <<>>
                /\ loadPc' = returned
                /\ UNCHANGED <<visited, stack, processed, node_id>>
           ELSE /\ visited' = visited \cup {node_id}
                /\ IF NodeDataMissing(node_data)
                   THEN /\ result' = <<>>
                        /\ loadPc' = returned
                        /\ UNCHANGED <<stack, processed, node_id>>
                   ELSE /\ processed' = Append(processed, node_id)
                        /\ stack' = Append(stack, node_id)
                        /\ result' = <<>>
                        /\ IF node_data.parent # NoNode
                           THEN node_id' = node_data.parent /\ loadPc' = "call"
                           ELSE UNCHANGED node_id /\ loadPc' = "own"
    /\ UNCHANGED <<batchVars, walkVars, trendVars, cleanVars, conv, messages>>

\* lines 433-460: the innermost waiting call has the list of its parent in
\* result, appends its own message when it is kept, and returns
TraverseReturn ==
    /\ loadPc = "own"
    /\ LET n == stack[Len(stack)]
       IN  result' = WithOwnMessage(result, GetMapping(conv)[n])
    /\ stack' = SubSeq(stack, 1, Len(stack) - 1)
    /\ loadPc' = IF stack' = <<>> THEN "returned" ELSE "own"
    /\ UNCHANGED <<batchVars, walkVars, trendVars, cleanVars, conv, node_id, visited, processed, ncalls, messages>>

\* lines 464, 468: messages = traverse_messages(current_node); chats[chat_id] = messages
LoadEnd ==
    /\ loadPc = "returned"
    /\ messages' = result
    /\ loadPc' = "done"
    /\ UNCHANGED <<batchVars, walkVars, trendVars, cleanVars, conv, node_id, visited, stack, result, processed, ncalls>>

NextLoad ==
    \/ LoadStart
    \/ TraverseCall
    \/ TraverseReturn
    \/ LoadEnd

SpecLoad == InitLoad /\ [][NextLoad]_vars

-----------------------------------------------------------------------------
(* app.py: the parent-link walks of ConversationData.analyze_and_save_chat     *)
(* (lines 310-323) and ConversationData.export_chat_history (lines 191-201).  *)
(* Both are the same while loop, without a visited set.                       *)

\* the two methods of app.py that walk the mapping
Walkers == {"analyze_and_save_chat", "export_chat_history"}

\* the list messages is followed up to this length; the loop goes on beyond it
MaxWalked == MaxNodes + 1

\* app.py lines 196, 319: current_node and current_node in mapping
WalkGoesOn(c, n) ==
    IF n = NoNode THEN FALSE ELSE GetMapping(c)[n].inmap

InitWalk ==
    /\ BatchIdle
    /\ TrendIdle
    /\ CleanIdle
    /\ loadPc = "off" /\ node_id = NoNode /\ visited = {} /\ stack = <<>>
    /\ result = <<>> /\ processed = <<>> /\ ncalls = 0 /\ messages = <<>>
    /\ \E k \in 0..MaxNodes, cn \in {NoNode} \cup NodeIds,
          parents \in [NodeIds -> {NoNode} \cup NodeIds] :
          /\ \A n \in NodeIds : n > k => parents[n] = NoNode
          /\ \E special \in 0..k :
                conv = TreeConversation(k, parents, special, "no_message", cn)
    /\ walker \in Walkers
    /\ walkPc = "start"
    /\ current_node = NoNode
    /\ walked = <<>>

\* app.py lines 310-318 and 191-195: mapping = conv.get('mapping', {});
\* analyze_and_save_chat returns at once on an empty mapping; messages = [];
\* current_node = conv.get('current_node')
WalkStart ==
    /\ walkPc = "start"
    /\ IF walker = "analyze_and_save_chat" /\ MappingSize(conv) = 0
       THEN walkPc' = "done" /\ UNCHANGED current_node
       ELSE walkPc' = "loop" /\ current_node' = GetCurrentNode(conv)
    /\ walked' = <<>>
    /\ UNCHANGED <<batchVars, loadVars, trendVars, cleanVars, walker>>

\* app.py lines 319-323 and 196-201: one turn of
\* while current_node and current_node in mapping
WalkStep ==
    /\ walkPc = "loop"
    /\ WalkGoesOn(conv, current_node)
    /\ LET node == GetMapping(conv)[current_node]
       IN  /\ walked' = IF node.hasmsg /\ Len(walked) < MaxWalked
                        THEN <<node.message>> \o walked
                        ELSE walked
           /\ current_node' = node.parent
    /\ UNCHANGED <<batchVars, loadVars, trendVars, cleanVars, walker, walkPc>>

\* the condition of the while loop is false: the loop is left
WalkEnd ==
    /\ walkPc = "loop"
    /\ ~WalkGoesOn(conv, current_node)
    /\ walkPc' = "done"
    /\ UNCHANGED <<batchVars, loadVars, trendVars, cleanVars, walker, current_node, walked>>

NextWalk ==
    \/ WalkStart
    \/ WalkStep
    \/ WalkEnd

\* The thread running the walk keeps running.
SpecWalk == InitWalk /\ [][NextWalk]_vars /\ WF_vars(NextWalk)

-----------------------------------------------------------------------------
(* Properties *)

Started(c) == job[c].pc \notin {"idle", "pending"}

\* The text passes the validator: every required heading, no indicator phrase.
WellFormed(t) ==
    t.kind = "text" /\ t.sections = 1..13 /\ t.generic = {}

C2_JobExceptionBecomesApiError ==
    mode = "batch" =>
        /\ mainPc # "raised"
        /\ \A c \in collected :
              (job[c].existed = "no" /\ ExtractionRaises(chats[c]))
                 => job[c].pc = "returned" /\ job[c].status = "api_error"

\* C3: when the batch finishes, completed = N and every submitted job is
\* counted in exactly one of the four outcome counters.
C3_EveryJobTalliedOnce ==
    (mode = "batch" /\ mainPc = "done") =>
        /\ nsubmitted = MaxChats
        /\ completed = nsubmitted
        /\ successful + skipped + format_errors + api_errors = nsubmitted
        /\ successful = Cardinality({c \in ChatIds : job[c].status = "success"})
        /\ skipped = Cardinality({c \in ChatIds : job[c].status = "skipped"})
        /\ format_errors = Cardinality({c \in ChatIds : job[c].status = "format_error"})
        /\ api_errors = Cardinality({c \in ChatIds : job[c].status = "api_error"})

\* C3 witness: a finished batch in which every job failed, in both ways.
C3_Witness ==
    /\ mode = "batch" /\ mainPc = "done"
    /\ successful = 0 /\ skipped = 0
    /\ format_errors >= 1 /\ api_errors >= 1

\* C4: every return of analyze_and_save_chat carries one of the statuses
\* success, skipped, format_error, api_error.
C4_StatusIsOneOfFour ==
    \A c \in ChatIds : job[c].pc = "returned" => job[c].status \in Statuses

\* C5: when the gateway call fails with an exception (timeout, network, quota,
\* malformed response), the job returns api_error with the path
\* {output_dir}/{chat_id}.md, no file is at that path, and the exception does
\* not leave the call: collecting the job does not make the batch raise (a
\* batch that raised did so on another job, one that itself raised).
C5_GatewayFailureIsApiError ==
    \A c \in ChatIds :
        job[c].gw \in GatewayExceptions =>
            /\ job[c].pc = "returned"
            /\ job[c].status = "api_error"
            /\ job[c].path = FilePath(c)
            /\ fs[FilePath(c)] = Absent
            /\ (c \in collected /\ mainPc = "raised"
                  => \E d \in collected : job[d].pc = "raised")

\* C5 witness: a batch that finished although the gateway timed out for one
\* job; another job of it succeeded.
C5_Witness ==
    \E c, d \in ChatIds :
        /\ job[c].gw = "timeout" /\ c \in collected
        /\ job[d].status = "success" /\ d \in collected
        /\ mainPc = "done"

C8_SecondRunSkipsSuccesses ==
    \A c \in prevSuccessful :
        /\ job[c].calls = 0
        /\ job[c].pc \in {"idle", "pending", "returned"}
        /\ (job[c].pc = "returned" => job[c].status = "skipped")
        /\ fs[FilePath(c)] # Absent
        /\ fs[FilePath(c)] = fsStart[FilePath(c)]

\* C8 witness: a second run has finished in which every conversation had
\* succeeded before: zero success, all skipped.
C8_Witness ==
    /\ prevSuccessful = ChatIds
    /\ mainPc = "done"
    /\ successful = 0 /\ skipped = MaxChats
    /\ \A c \in ChatIds : WellFormed(fs[FilePath(c)])

\* A call that has received a response lacking at least one required heading
\* and has returned.
LacksSection(c) ==
    /\ job[c].gw = "response"
    /\ job[c].pc = "returned"
    /\ job[c].analysis.sections # 1..13

C10_GenericContentIsInvalid ==
    \A c \in ChatIds :
        (job[c].valid # "unknown" /\ job[c].analysis.generic # {}) =>
            /\ job[c].valid = "no"
            /\ fs[FilePath(c)] = Absent

\* C10 witness: a text with all 13 headings and the third indicator phrase
\* has been validated and found invalid.
C10_Witness ==
    \E c \in ChatIds :
        /\ job[c].valid = "no"
        /\ job[c].analysis.sections = 1..13
        /\ job[c].analysis.generic = {3}

\* C11: when no report exists, the estimate is under the ceiling and the
\* gateway returns a text that passes validation, the call returns success
\* with the path {output_dir}/{chat_id}.md, the gateway was called exactly
\* once and the file's content equals the response.
C11_ValidResponseIsSaved ==
    \A c \in ChatIds :
        (job[c].pc = "returned" /\ job[c].gw = "response" /\ WellFormed(job[c].analysis))
           => /\ job[c].existed = "no"
              /\ EstimatedQuarterTokens(chats[c]) <= 4 * 120000
              /\ job[c].status = "success"
              /\ job[c].path = FilePath(c)
              /\ job[c].calls = 1
              /\ fs[FilePath(c)] = job[c].analysis
              /\ fs[TempPath(FilePath(c))] = Absent

\* C11 witness: the largest admitted conversation has been analysed and its
\* report saved.
C11_Witness ==
    \E c \in ChatIds :
        /\ EstimatedQuarterTokens(chats[c]) = 4 * 120000
        /\ job[c].status = "success"
        /\ fs[FilePath(c)] = MkText(1..13, {}, "analysis B")

HasKnownContentType(msg) ==
    msg.content_type \in {"text", "multimodal_text", "user_editable_context"}

C17_EmptyTranscriptIsSkipped ==
    \A c \in ChatIds :
        (Conversation(chats[c]) = <<>> /\ ~ExtractionRaises(chats[c]))
           => /\ job[c].calls = 0
              /\ job[c].pc = "returned" => job[c].status = "skipped"

\* C19: during a batch run the number of jobs in the running state never
\* exceeds the configured worker bound Config.max_workers = min(8, cpu_count).
C19_RunningJobsWithinConfiguredBound ==
    mode = "batch" => Cardinality(RunningJobs) <= ConfigMaxWorkers

\* C20: the gateway request is governed by the 60-second timeout: no job is
\* still waiting on the gateway after more than 60 seconds.
C20_RequestEndsWithinTimeout ==
    \A c \in ChatIds :
        job[c].pc = "calling" => job[c].waited <= 60

\* C13: for every mapping and every current_node, mappings whose parent
\* links form a cycle included, the traversal reads no node twice and ends
\* after at most |mapping| node visits (one more call at most is made, which
\* returns at once on a node already visited or missing from the mapping).
C13_NoNodeVisitedTwice ==
    loadPc # "off" =>
        /\ \A i, j \in 1..Len(processed) : i # j => processed[i] # processed[j]
        /\ Len(processed) <= MappingSize(conv)
        /\ ncalls <= MappingSize(conv) + 1
        /\ ncalls <= Len(processed) + 1
        /\ Len(stack) <= Len(processed)

\* C13 witness: the traversal of a mapping whose parent links lead back to
\* current_node has ended, every node read once.
C13_Witness ==
    /\ loadPc = "done"
    /\ Len(processed) >= 2
    /\ processed[1] = conv.current_node
    /\ conv.mapping[processed[Len(processed)]].parent = conv.current_node
    /\ ncalls = Len(processed) + 1

\* the walk over the parent links from node n, leaf first, stopped at None, at
\* an id missing from the mapping and at an id met before
RECURSIVE PathToRoot(_, _, _)
PathToRoot(mapping, n, seen) ==
    IF n = 0 \/ n \in seen THEN <<>>
    ELSE IF ~mapping[n].inmap THEN <<>>
    ELSE <<n>> \o PathToRoot(mapping, mapping[n].parent, seen \cup {n})

\* C14: the list produced by the traversal is in root-to-leaf order: the kept
\* messages of the path from current_node to the root appear with every
\* ancestor before its descendants, and the message of current_node, if kept,
\* is last.
C14_MessagesInRootToLeafOrder ==
    (loadPc = "done" /\ "mapping" \in conv.keys) =>
        LET Kept(n) == KeepMessage(conv.mapping[n])
            kept == SelectSeq(PathToRoot(conv.mapping, conv.current_node, {}), Kept)
        IN  /\ Len(messages) = Len(kept)
            /\ \A i \in 1..Len(kept) :
                  messages[i] = conv.mapping[kept[Len(kept) + 1 - i]].message

\* C14 witness: a chain of three nodes whose middle message is not kept was
\* loaded as the root's message followed by the message of current_node.
C14_Witness ==
    /\ loadPc = "done"
    /\ Len(processed) = 3
    /\ Len(messages) = 2
    /\ ~KeepMessage(conv.mapping[processed[2]])
    /\ messages[1] = conv.mapping[processed[3]].message
    /\ messages[2] = conv.mapping[conv.current_node].message

\* s.strip(): the text without its leading and trailing blanks
RECURSIVE Strip(_)
Strip(s) ==
    IF s = <<>> THEN s
    ELSE IF Head(s) = " " THEN Strip(Tail(s))
    ELSE IF s[Len(s)] = " " THEN Strip(SubSeq(s, 1, Len(s) - 1))
    ELSE s

\* C15: the message list produced for a conversation never contains a message
\* whose author role is system, a message flagged hidden from the
\* conversation, or a message whose extracted text is empty after trimming
\* whitespace.
C15_LoadedMessagesAreVisibleText ==
    loadPc = "done" =>
        \A i \in 1..Len(messages) :
            /\ messages[i].role # "system"
            /\ \A n \in NodeIds :
                  (conv.mapping[n].hasmsg /\ conv.mapping[n].message = messages[i])
                     => ~conv.mapping[n].hidden
            /\ ExtractText(messages[i]).py = "str"
            /\ Strip(ExtractText(messages[i]).s) # <<>>

\* C31: a visible, non-system message on the active path whose content_type
\* is user_editable_context and whose text field is non-empty is kept by the
\* loader and appears as 'role: text' in the conversation text built from the
\* loaded messages.
C31_EditableContextReachesTheTranscript ==
    (loadPc = "done" /\ "mapping" \in conv.keys) =>
        LET path == PathToRoot(conv.mapping, conv.current_node, {})
            transcript == Conversation(messages)
        IN  \A i \in 1..Len(path) :
                LET node == conv.mapping[path[i]] IN
                (/\ node.hasmsg
                 /\ node.message.role # "system"
                 /\ ~node.hidden
                 /\ node.message.content_type = "user_editable_context"
                 /\ node.message.text.py = "str"
                 /\ node.message.text.s # <<>>) =>
                    /\ \E j \in 1..Len(messages) : messages[j] = node.message
                    /\ \E j \in 1..Len(transcript) :
                          transcript[j] = <<node.message.role, node.message.text.s>>

\* C18: a conversation given in the flat shape (a messages list of
\* role/content entries, no mapping and no current_node) is loaded as one
\* message per entry of its messages list, in the same order.
C18_FlatShapeIsLoaded ==
    (loadPc = "done" /\ conv.keys = {"messages"}) =>
        /\ Len(messages) = Len(conv.messages)
        /\ \A i \in 1..Len(conv.messages) : messages[i].role = conv.messages[i].role

\* C27: within one run each job moves pending -> running -> one terminal
\* outcome and never leaves it: the gateway is called at most once per
\* conversation per run, and a job that has ended (in api_error or
\* format_error as in any other way) is not re-queued or retried in that run;
\* only the start of a new run resets it.
C27_TerminalOutcomeIsFinal ==
    [][\A c \in ChatIds :
          /\ job'[c].calls <= 1
          /\ job[c].pc = "idle" => job'[c].pc \in {"idle", "pending"}
          /\ (job[c].pc # "idle" /\ job'[c].pc \in {"idle", "pending"})
                => job'[c].pc = job[c].pc \/ (mainPc \in {"done", "raised"} /\ mainPc' = "submit")
          /\ job[c].pc \in {"returned", "raised"}
                => \/ job'[c] = job[c]
                   \/ (mainPc \in {"done", "raised"} /\ mainPc' = "submit")]_vars

\* C27 witness: a finished batch in which one job ended in api_error and
\* another in format_error, each after one gateway call.
C27_Witness ==
    \E c, d \in ChatIds :
        /\ mode = "batch" /\ mainPc = "done"
        /\ job[c].status = "api_error" /\ job[c].calls = 1
        /\ job[d].status = "format_error" /\ job[d].calls = 1

\* C28: for a job that starts with no file at its final path, when the call
\* has returned the final file exists if and only if the returned outcome is
\* success; after skipped (too large), format_error or api_error no file
\* exists at the final path.
C28_FinalFileIffSuccess ==
    \A c \in ChatIds :
        (job[c].pc = "returned" /\ job[c].existed = "no")
           => /\ (fs[<<c, "md">>] # Absent) <=> (job[c].status = "success")
              /\ job[c].status = "success" => fs[<<c, "md">>] = job[c].analysis

\* C28 witness: a job that found no file returned format_error and left none.
C28_Witness ==
    \E c \in ChatIds :
        /\ job[c].pc = "returned" /\ job[c].existed = "no"
        /\ job[c].status = "format_error"
        /\ fs[<<c, "md">>] = Absent

\* C30: when the walk from current_node reaches a parent id that is not a key
\* of the mapping, the traversal stops there as if at the root and no error
\* is raised: the result is what the same mapping gives with that link set to
\* None, the kept messages from the last present ancestor down to
\* current_node, and the missing id is never read.
C30_MissingParentEndsTheWalk ==
    (loadPc = "done" /\ "mapping" \in conv.keys /\ conv.current_node # 0) =>
        LET path == PathToRoot(conv.mapping, conv.current_node, {})
        IN  IF path = <<>>
            THEN messages = <<>> /\ processed = <<>> /\ ncalls = 1
            ELSE LET last == path[Len(path)]
                     missing == conv.mapping[last].parent
                     rooted == [conv.mapping EXCEPT ![last].parent = 0]
                     Kept(n) == KeepMessage(rooted[n])
                     kept == SelectSeq(PathToRoot(rooted, conv.current_node, {}), Kept)
                 IN  (missing # 0 /\ ~conv.mapping[missing].inmap)
                        => /\ processed = path
                           /\ ncalls = Len(path) + 1
                           /\ Len(messages) = Len(kept)
                           /\ \A i \in 1..Len(kept) :
                                 messages[i] = rooted[kept[Len(kept) + 1 - i]].message

\* C30 witness: a walk over two present nodes ended at a parent id missing
\* from the mapping and both messages were loaded, the older one first.
C30_Witness ==
    /\ loadPc = "done"
    /\ Len(processed) = 2
    /\ conv.mapping[processed[2]].parent # 0
    /\ ~conv.mapping[conv.mapping[processed[2]].parent].inmap
    /\ messages = << conv.mapping[processed[2]].message,
                     conv.mapping[processed[1]].message >>

\* C29: in app.py the parent-link walks of analyze_and_save_chat and
\* export_chat_history terminate for every mapping, one whose parent links
\* form a cycle reachable from current_node included.
C29_WalkTerminates == <>(walkPc = "done")

\* ======================================================================
\* Trend analysis: src/trend_processor.py and
\* ChatAnalysisOptions.analyze_trends (src/chat_analysis_options.py)
\* ======================================================================

\* Number of *.md files in the analysed directory.
MaxFiles == 2
FileIds == 1..MaxFiles

\* Modification times, as os.path.getmtime orders them: a sibling written
\* before the markdown file, the markdown file itself, a sibling written after
\* it, and a sibling written by the present run.
MtimeOlder == 0
MtimeMd == 1
MtimeNewer == 2
MtimeNow == 3

\* The three top-level keys _process_file indexes.
AnalysisKeys == {"loop_completion", "breakdown", "insights"}

\* Free text is a sequence of words; a word stands for itself.
ReasonNone == <<"none">>
ReasonUnknown == <<"unknown">>
ReasonInsufficient == <<"Insufficient", "information", "for", "detailed", "analysis">>
ReasonJsonError == <<"JSON", "parsing", "error">>
ReasonAnalysisError == <<"Analysis", "error">>
ReasonUnclear == <<"The", "requirements", "were", "Unclear">>
ReasonNoResponse == <<"no", "response", "from", "user">>

\* A parsed JSON value.  keys is the set of its top-level keys; the other
\* fields are what the value holds under loop_completion and breakdown, and
\* hold the defaults of dict.get when the key is missing.  Of the insights
\* flags ai_partnership is kept; the other three and skipped_validation are
\* counted by the summary in the same way and are left out.
JsonObject(keys, is_completed, exit_at_step_one, exit_step, failure_reason) ==
    [keys |-> keys, completed |-> is_completed,
     exit_at_step_one |-> exit_at_step_one, exit_step |-> exit_step,
     failure_reason |-> failure_reason, ai_partnership |-> FALSE]
\* the same value with "ai_partnership": true under insights
WithPartnership(value) == [value EXCEPT !.ai_partnership = TRUE]

NoAnalysis == JsonObject({}, FALSE, FALSE, "", <<>>)

\* What the model was asked for: a completed loop, and a loop left at step 3.
CompletedAnalysis == JsonObject(AnalysisKeys, TRUE, FALSE, "none", ReasonNone)
ExitAnalysis ==
    WithPartnership(JsonObject(AnalysisKeys, FALSE, FALSE, "step_3", ReasonUnclear))
StepOneAnalysis == JsonObject(AnalysisKeys, FALSE, TRUE, "step_1", ReasonNoResponse)
\* Valid JSON of another shape: {"answer": "yes"}.
OtherShape == JsonObject({"answer"}, FALSE, FALSE, "", <<>>)

\* trend_processor.py 208-224: the record built for a bare yes / no.
YesNoAnalysis(is_completed) ==
    JsonObject(AnalysisKeys, is_completed, ~is_completed,
               IF is_completed THEN "none" ELSE "step_1",
               IF is_completed THEN ReasonNone ELSE ReasonInsufficient)

\* trend_processor.py 253-257 and 261-265.
DefaultAnalysis(reason) == JsonObject(AnalysisKeys, FALSE, TRUE, "unknown", reason)

\* A gateway response: message.content.  fence is the markdown code fence
\* around the text ("none", "plain" or "json"), body is what the text is
\* ("yes", "no", "json" or "garbage"), upper tells whether a yes / no is
\* capitalised, quotes is the quote character of a JSON text and value is the
\* value it denotes.  NoneContent is a content of None.
Response(fence, body, upper, quotes, value) ==
    [fence |-> fence, body |-> body, upper |-> upper, quotes |-> quotes,
     value |-> value]
NoneContent == Response("none", "None", FALSE, "", NoAnalysis)

TrendResponses ==
    { Response("none", "json", FALSE, "double", CompletedAnalysis),
      Response("json", "json", FALSE, "double", ExitAnalysis),
      Response("plain", "json", FALSE, "single", StepOneAnalysis),
      Response("none", "yes", TRUE, "", NoAnalysis),
      Response("plain", "no", FALSE, "", NoAnalysis),
      Response("none", "json", FALSE, "double", OtherShape),
      Response("json", "garbage", FALSE, "", NoAnalysis),
      NoneContent }

\* trend_processor.py 193-201: the text between the fences, without the tag.
Unfenced(r) == [r EXCEPT !.fence = "none"]
\* str.lower()
Lowered(r) == [r EXCEPT !.upper = FALSE]
\* trend_processor.py 237: result.replace("'", "\"")
DoubleQuoted(r) == [r EXCEPT !.quotes = IF @ = "single" THEN "double" ELSE @]
\* json.loads succeeds on a JSON text with double quotes and no fence.
JsonLoads(r) == r.body = "json" /\ r.quotes = "double" /\ r.fence = "none"
IsYesNo(r) == r.fence = "none" /\ ~r.upper /\ r.body \in {"yes", "no"}

\* trend_processor.py 166-273: what _analyze_with_openai returns, and writes
\* to the sibling, for a response r.
AnalyzeWithOpenai(r) ==
    IF r.body = "None" THEN DefaultAnalysis(ReasonAnalysisError)   \* None.strip()
    ELSE LET text == Unfenced(r) IN
         IF IsYesNo(Lowered(text)) THEN YesNoAnalysis(text.body = "yes")
         ELSE IF JsonLoads(text) THEN text.value
         ELSE IF JsonLoads(DoubleQuoted(text)) THEN text.value
         ELSE DefaultAnalysis(ReasonJsonError)

\* A file of output_dir: whether it exists, its mtime, whether json.load can
\* read it, and the value it holds.
SiblingFile(exists, mtime, readable, value) ==
    [exists |-> exists, mtime |-> mtime, readable |-> readable, value |-> value]
NoSibling == SiblingFile(FALSE, MtimeOlder, FALSE, NoAnalysis)
\* The siblings an earlier run can have left behind.
InitialSiblings ==
    { NoSibling,
      SiblingFile(TRUE, MtimeOlder, TRUE, ExitAnalysis),
      SiblingFile(TRUE, MtimeMd, TRUE, CompletedAnalysis),
      SiblingFile(TRUE, MtimeNewer, FALSE, NoAnalysis) }

ShouldProcessFile_StrictlyNewer(force, json_file, md_mtime) ==
    IF force THEN TRUE
    ELSE IF json_file.exists /\ json_file.mtime > md_mtime THEN FALSE
    ELSE TRUE

\* trend_processor.py 37-59
ShouldProcessFile(force, json_file, md_mtime) ==
    IF force THEN TRUE
    ELSE IF json_file.exists /\ json_file.mtime >= md_mtime THEN FALSE
    ELSE TRUE

\* The statistics of one file.  exit_at_step_one and ai_partnership are kept
\* by their truth value (1 / 0 in a fresh record, true / false in a cached one).
Stats(ncompleted, exit_at_step_one, exit_step, failure_reason, cached) ==
    [completed |-> ncompleted, exit_at_step_one |-> exit_at_step_one,
     exit_step |-> exit_step, failure_reason |-> failure_reason,
     cached |-> cached, ai_partnership |-> FALSE]
NoStats == Stats(0, FALSE, "", <<>>, FALSE)

\* trend_processor.py 78-93: the statistics read from a readable sibling;
\* a missing key gives the default of dict.get.
CachedStats(data) ==
    IF data.keys = AnalysisKeys
    THEN [Stats(IF data.completed THEN 1 ELSE 0, data.exit_at_step_one,
                data.exit_step, data.failure_reason, TRUE)
            EXCEPT !.ai_partnership = data.ai_partnership]
    ELSE Stats(0, FALSE, "unknown", ReasonUnknown, TRUE)

\* trend_processor.py 298-300: analysis['loop_completion'] and the next two
\* lines raise KeyError when the key is missing.
ProcessFileRaises(analysis) == ~(AnalysisKeys \subseteq analysis.keys)
\* trend_processor.py 302-313, and 97
ProcessedStats(analysis) ==
    [Stats(IF analysis.completed THEN 1 ELSE 0, analysis.exit_at_step_one,
           analysis.exit_step, analysis.failure_reason, FALSE)
       EXCEPT !.ai_partnership = analysis.ai_partnership]

\* str.lower() of one word.
Lower(w) ==
    CASE w = "Insufficient" -> "insufficient"
      [] w = "Unclear" -> "unclear"
      [] w = "The" -> "the"
      [] w = "JSON" -> "json"
      [] w = "Analysis" -> "analysis"
      [] OTHER -> w
LowerText(t) == [i \in DOMAIN t |-> Lower(t[i])]
HasWord(t, w) == \E i \in DOMAIN t : t[i] = w
HasWords(t, w1, w2) ==
    \E i \in DOMAIN t : i + 1 \in DOMAIN t /\ t[i] = w1 /\ t[i + 1] = w2

\* trend_processor.py 347-366.  The result is a bucket, or (bucket "") the
\* words of the lowered text joined with underscores.
normalize_reason(r) ==
    LET reason == LowerText(r) IN
    IF HasWord(reason, "insufficient") \/ HasWords(reason, "not", "enough")
    THEN [bucket |-> "insufficient_information", words |-> <<>>]
    ELSE IF HasWord(reason, "unclear") \/ HasWord(reason, "ambiguous")
    THEN [bucket |-> "unclear_requirements", words |-> <<>>]
    ELSE IF HasWord(reason, "invalid") \/ HasWord(reason, "malformed")
    THEN [bucket |-> "invalid_format", words |-> <<>>]
    ELSE IF HasWord(reason, "timeout") \/ HasWords(reason, "no", "response")
    THEN [bucket |-> "timeout", words |-> <<>>]
    ELSE IF reason = <<"none">> THEN [bucket |-> "none", words |-> <<>>]
    ELSE IF reason = <<"unknown">> THEN [bucket |-> "unknown", words |-> <<>>]
    ELSE [bucket |-> "", words |-> reason]

ExitStepNames == {"none", "step_1", "step_3", "unknown"}

\* The summary: sections is the set of its top-level keys, reads the keys of
\* a record that some count of it is computed from, and the other fields are
\* the counts ("Total Analyzed", "Step One Exits", "Engaged Conversations",
\* the numerator of "Completed (%)" and "Exit Steps").
\* The value of a division by zero: Python raises ZeroDivisionError and
\* _generate_summary returns nothing.
ZeroDivision == -1
\* (num / den) * 100, in whole percent
Percent(num, den) == IF den = 0 THEN ZeroDivision ELSE (num * 100) \div den
\* num / den * 100 if den > 0 else 0
GuardedPercent(num, den) == IF den > 0 THEN Percent(num, den) ELSE 0

RateNames ==
    {"Step One Exit Rate (%)", "Completed (%)", "AI Partnership (%)",
     "Success Rate of Partnerships (%)", "Non-Partnership Success Rate (%)"}
NoRates == [r \in RateNames |-> 0]

\* partnerships is "Partnerships" and rates the percentages of the summary.
Summary(sections, reads, total, step_one_exits, engaged, ncompleted, exit_steps) ==
    [sections |-> sections, reads |-> reads, total |-> total,
     step_one_exits |-> step_one_exits, engaged |-> engaged,
     completed |-> ncompleted, exit_steps |-> exit_steps,
     partnerships |-> 0, rates |-> NoRates]
NoExitSteps == [s \in ExitStepNames |-> 0]
\* trend_processor.py 127-129: return {}
NoSummary == Summary({}, {}, 0, 0, 0, 0, NoExitSteps)

\* the early return for no engaged chat left out
NoneEngaged_Never(total_engaged) == FALSE

\* trend_processor.py 332: if total_engaged == 0
NoneEngaged(total_engaged) == total_engaged = 0

\* trend_processor.py 315-418.  normalize_reason is defined inside it and
\* never called, and no count is computed from failure_reason.
GenerateSummary(l) ==
    LET total_chats == Len(l)
        Engaged(s) == ~s.exit_at_step_one
        Completed(s) == Engaged(s) /\ s.completed = 1
        total_engaged == Cardinality({i \in DOMAIN l : Engaged(l[i])})
        ncompleted == Cardinality({i \in DOMAIN l : Completed(l[i])})
        ai_partnership ==
            Cardinality({i \in DOMAIN l : Engaged(l[i]) /\ l[i].ai_partnership})
        partnership_completed ==
            Cardinality({i \in DOMAIN l : Completed(l[i]) /\ l[i].ai_partnership})
    IN  IF total_chats = 0
        THEN Summary({"Total Chats Analyzed"}, {}, 0, 0, 0, 0, NoExitSteps)
        ELSE IF NoneEngaged(total_engaged)
        THEN Summary({"Total Chats Analyzed", "Step One Exits",
                      "Engaged Conversations"}, {"exit_at_step_one"},
                     total_chats, total_chats, 0, 0, NoExitSteps)
        ELSE [Summary({"Total Chats", "Loop Completion (of engaged)",
                       "Breakdown (of engaged)", "Insights (of engaged)"},
                      {"exit_at_step_one", "completed", "skipped_validation",
                       "novel_patterns", "ai_partnership", "ai_as_critic",
                       "decision_intelligence", "exit_step"},
                      total_chats, total_chats - total_engaged, total_engaged,
                      ncompleted,
                      [step \in ExitStepNames |->
                         Cardinality({i \in DOMAIN l :
                             /\ Engaged(l[i]) /\ l[i].completed # 1
                             /\ l[i].exit_step = step})])
                EXCEPT
                  !.partnerships = ai_partnership,
                  !.rates =
                    [r \in RateNames |->
                       CASE r = "Step One Exit Rate (%)" ->
                              Percent(total_chats - total_engaged, total_chats)
                         [] r = "Completed (%)" ->
                              Percent(ncompleted, total_engaged)
                         [] r = "AI Partnership (%)" ->
                              Percent(ai_partnership, total_engaged)
                         [] r = "Success Rate of Partnerships (%)" ->
                              GuardedPercent(partnership_completed, ai_partnership)
                         [] OTHER ->
                              GuardedPercent(ncompleted - partnership_completed,
                                             total_engaged - ai_partnership)]]

\* One call of _process_file_with_cache.  pc: "pending" (submitted, not
\* started), "calling" (in the gateway call), "returned", "raised".
TrendJob(pc, should, calls, analysis, stats) ==
    [pc |-> pc, should |-> should, calls |-> calls, analysis |-> analysis,
     stats |-> stats]
NewTrendJob == TrendJob("pending", "unknown", 0, NoAnalysis, NoStats)

\* chat_analysis_options.py 78: TrendProcessor(output_dir=...) leaves
\* force_reprocess at its default; a direct caller passes the argument.
ConstructedForce(who, option) ==
    IF who = "analyze_trends" THEN FALSE ELSE option

\* trend_processor.py 140
TrendMaxWorkers == Min(IF CpuCount = 0 THEN 1 ELSE CpuCount, MaxFiles)
TrendRunning == {f \in FileIds : tjob[f].pc = "calling"}

InitTrend ==
    /\ BatchIdle
    /\ LoadIdle
    /\ WalkIdle
    /\ CleanIdle
    /\ entry \in {"analyze_trends", "TrendProcessor"}
    /\ force_option \in BOOLEAN
    /\ force_reprocess = FALSE
    /\ sibling \in [FileIds -> InitialSiblings]
    /\ siblingStart = sibling
    /\ tjob = [f \in FileIds |-> NewTrendJob]
    /\ trendPc = "construct"
    /\ tcollected = {}
    /\ stats_list = <<>>
    /\ tprocessed = 0 /\ tcached = 0 /\ terrors = 0
    /\ summary = NoSummary
    /\ rerun = FALSE
    /\ prevSummary = NoSummary

\* TrendProcessor.__init__, then analyze_directory up to the submits.
TrendStart ==
    /\ trendPc = "construct"
    /\ force_reprocess' = ConstructedForce(entry, force_option)
    /\ trendPc' = "collect"
    /\ UNCHANGED <<batchVars, loadVars, walkVars, cleanVars, rerun, prevSummary, entry, force_option, sibling,
                   siblingStart, tjob, tcollected, stats_list, tprocessed,
                   tcached, terrors, summary>>

\* A worker takes the file f: _process_file_with_cache up to the gateway
\* call, or to its end when the cache is used.
TrendJobStart(f) ==
    /\ trendPc = "collect"
    /\ tjob[f].pc = "pending"
    /\ Cardinality(TrendRunning) < TrendMaxWorkers
    /\ LET should == ShouldProcessFile(force_reprocess, sibling[f], MtimeMd) IN
       tjob' = [tjob EXCEPT ![f] =
           IF should THEN TrendJob("calling", "yes", 1, NoAnalysis, NoStats)
           ELSE IF sibling[f].readable
           THEN TrendJob("returned", "no", 0, NoAnalysis,
                         CachedStats(sibling[f].value))
           ELSE TrendJob("raised", "no", 0, NoAnalysis, NoStats)]
    /\ UNCHANGED <<batchVars, loadVars, walkVars, cleanVars, rerun, prevSummary, entry, force_option,
                   force_reprocess, sibling, siblingStart, trendPc, tcollected,
                   stats_list, tprocessed, tcached, terrors, summary>>

\* The rest of _process_file once _analyze_with_openai has returned analysis.
AfterAnalysis(f, analysis) ==
    /\ sibling' = [sibling EXCEPT ![f] =
                      SiblingFile(TRUE, MtimeNow, TRUE, analysis)]
    /\ tjob' = [tjob EXCEPT ![f] =
           IF ProcessFileRaises(analysis)
           THEN TrendJob("raised", "yes", 1, analysis, NoStats)
           ELSE TrendJob("returned", "yes", 1, analysis,
                         ProcessedStats(analysis))]
    /\ UNCHANGED <<batchVars, loadVars, walkVars, cleanVars, rerun, prevSummary, entry, force_option,
                   force_reprocess, siblingStart, trendPc, tcollected,
                   stats_list, tprocessed, tcached, terrors, summary>>

\* The gateway answers the call for f.
TrendGatewayReturns(f) ==
    /\ tjob[f].pc = "calling"
    /\ \E r \in TrendResponses : AfterAnalysis(f, AnalyzeWithOpenai(r))

\* The gateway call for f raises.
TrendGatewayRaises(f) ==
    /\ tjob[f].pc = "calling"
    /\ AfterAnalysis(f, DefaultAnalysis(ReasonAnalysisError))

\* as_completed yields the future of f: trend_processor.py 147-160.
TrendCollect(f) ==
    /\ trendPc = "collect"
    /\ f \notin tcollected
    /\ tjob[f].pc \in {"returned", "raised"}
    /\ tcollected' = tcollected \cup {f}
    /\ IF tjob[f].pc = "returned"
       THEN /\ stats_list' = Append(stats_list, tjob[f].stats)
            /\ tprocessed' = tprocessed + 1
            /\ tcached' = tcached + (IF tjob[f].stats.cached THEN 1 ELSE 0)
            /\ terrors' = terrors
       ELSE /\ terrors' = terrors + 1
            /\ UNCHANGED <<stats_list, tprocessed, tcached>>
    /\ UNCHANGED <<batchVars, loadVars, walkVars, cleanVars, rerun, prevSummary, entry, force_option,
                   force_reprocess, sibling, siblingStart, tjob, trendPc,
                   summary>>

\* trend_processor.py 164
TrendSummary ==
    /\ trendPc = "collect"
    /\ tcollected = FileIds
    /\ summary' = GenerateSummary(stats_list)
    /\ trendPc' = "done"
    /\ UNCHANGED <<batchVars, loadVars, walkVars, cleanVars, rerun, prevSummary, entry, force_option,
                   force_reprocess, sibling, siblingStart, tjob, tcollected,
                   stats_list, tprocessed, tcached, terrors>>

\* The same command is run once more, later, on the same directories: the
\* markdown files are unchanged and the siblings are what the first run left.
\* (A run with force_reprocess reads no sibling, whoever wrote it.)
TrendRerun ==
    /\ trendPc = "done"
    /\ ~rerun
    /\ ~force_reprocess
    /\ rerun' = TRUE
    /\ prevSummary' = summary
    /\ siblingStart' = sibling
    /\ tjob' = [f \in FileIds |-> NewTrendJob]
    /\ trendPc' = "construct"
    /\ tcollected' = {}
    /\ stats_list' = <<>>
    /\ tprocessed' = 0 /\ tcached' = 0 /\ terrors' = 0
    /\ summary' = NoSummary
    /\ UNCHANGED <<batchVars, loadVars, walkVars, cleanVars, entry, force_option,
                   force_reprocess, sibling>>

NextTrend ==
    \/ TrendStart
    \/ \E f \in FileIds : TrendJobStart(f)
    \/ \E f \in FileIds : TrendGatewayReturns(f)
    \/ \E f \in FileIds : TrendGatewayRaises(f)
    \/ \E f \in FileIds : TrendCollect(f)
    \/ TrendSummary
    \/ TrendRerun

SpecTrend == InitTrend /\ [][NextTrend]_vars

\* ======================================================================
\* FileValidator.verify_and_clean_md_files (src/file_validator.py)
\* ======================================================================

\* A file whose bytes are no UTF-8 text: open(...).read() raises.
Unreadable == [kind |-> "unreadable", sections |-> {}, generic |-> {}, body |-> ""]

\* What a {chat_id}.md of the directory may hold before the cleaning.
MarkdownFiles ==
    { Absent,
      FullReport("analysis A"),
      MkText(required_sections \ {NumRequiredSections}, {}, "analysis A"),
      MkText(required_sections, {1}, "analysis A"),
      Unreadable }

\* What a {chat_id}.md.tmp may hold: nothing, or the text an interrupted job
\* left there.
LeftoverFiles == { Absent, MkText({}, {}, "analysis A") }

\* every name taken for a markdown file
IsMarkdownName_Any(filename) == TRUE

\* file_validator.py 91: filename.endswith('.md')
IsMarkdownName(filename) == filename[Len(filename)] = "md"

\* file_validator.py 101: return invalid_files, len(invalid_files)
CleanResult(names) == [invalid_files |-> names, count |-> Len(names)]

InitClean ==
    /\ LoadIdle
    /\ WalkIdle
    /\ TrendIdle
    /\ mode = "clean"
    /\ chats = [c \in ChatIds |-> <<>>]
    /\ dirExists \in BOOLEAN
    /\ \E md \in [ChatIds -> MarkdownFiles], tmp \in [ChatIds -> LeftoverFiles] :
          fs = [p \in Paths |->
                  IF ~dirExists THEN Absent
                  ELSE IF IsMarkdownName(p) THEN md[p[1]] ELSE tmp[p[1]]]
    /\ fsStart = fs
    /\ job = [c \in ChatIds |-> NewJob]
    /\ mainPc = "clean"
    /\ nsubmitted = 0
    /\ collected = {}
    /\ completed = 0 /\ successful = 0 /\ skipped = 0
    /\ format_errors = 0 /\ api_errors = 0
    /\ prevSuccessful = {}
    /\ placed = {}
    /\ unlisted = {}
    /\ invalid_files = <<>>
    /\ remove_failed = {}
    /\ cleanPc = "start"
    /\ cleanRet = CleanResult(<<>>)

\* file_validator.py 84-90: return [], 0 for a directory that does not exist,
\* otherwise os.listdir(directory)
CleanStart ==
    /\ cleanPc = "start"
    /\ IF dirExists
       THEN /\ unlisted' = {p \in Paths : fs[p] # Absent}
            /\ cleanPc' = "loop"
            /\ UNCHANGED cleanRet
       ELSE /\ cleanRet' = CleanResult(<<>>)
            /\ cleanPc' = "done"
            /\ UNCHANGED unlisted
    /\ UNCHANGED <<batchVars, loadVars, walkVars, trendVars, dirExists,
                   invalid_files, remove_failed>>

\* file_validator.py 90-99: one iteration of the loop, on the name the
\* listing gives next (os.listdir has no fixed order); os.remove may raise.
CleanVisit(filename) ==
    /\ cleanPc = "loop"
    /\ filename \in unlisted
    /\ unlisted' = unlisted \ {filename}
    /\ IF IsMarkdownName(filename) /\ ~VerifyMdFormat(fs, filename)
       THEN /\ invalid_files' = Append(invalid_files, filename)
            /\ \E removed \in BOOLEAN :
                  IF removed
                  THEN /\ fs' = [fs EXCEPT ![filename] = Absent]
                       /\ UNCHANGED remove_failed
                  ELSE /\ remove_failed' = remove_failed \cup {filename}
                       /\ UNCHANGED fs
       ELSE UNCHANGED <<fs, invalid_files, remove_failed>>
    /\ UNCHANGED <<loadVars, walkVars, trendVars, mode, chats, fsStart, job,
                   mainPc, nsubmitted, collected, counters, prevSuccessful,
                   placed, dirExists, cleanPc, cleanRet>>

\* file_validator.py 101
CleanEnd ==
    /\ cleanPc = "loop"
    /\ unlisted = {}
    /\ cleanRet' = CleanResult(invalid_files)
    /\ cleanPc' = "done"
    /\ UNCHANGED <<batchVars, loadVars, walkVars, trendVars, dirExists,
                   unlisted, invalid_files, remove_failed>>

NextClean ==
    \/ CleanStart
    \/ \E filename \in Paths : CleanVisit(filename)
    \/ CleanEnd

SpecClean == InitClean /\ [][NextClean]_vars

\* ---------------------------------------------------------------------------
\* _generate_summary on its own: the function applied to any list of records.
\* ---------------------------------------------------------------------------

\* The longest list of records.
MaxRecords == 3

\* The records of a list: every combination of the values the summary reads.
\* A record without a key reads the default of dict.get, which is the record
\* Stats(0, FALSE, "unknown", ReasonUnknown, FALSE).
SummaryRecords ==
    {[Stats(ncompleted, exit_at_step_one, exit_step, ReasonUnknown, FALSE)
        EXCEPT !.ai_partnership = ai_partnership] :
        ncompleted \in {0, 1}, exit_at_step_one \in BOOLEAN,
        exit_step \in {"step_3", "unknown"}, ai_partnership \in BOOLEAN}

InitSummary ==
    /\ BatchIdle /\ LoadIdle /\ WalkIdle /\ CleanIdle
    /\ entry = "none"
    /\ force_option = FALSE
    /\ force_reprocess = FALSE
    /\ sibling = <<>>
    /\ siblingStart = <<>>
    /\ tjob = <<>>
    /\ trendPc = "records"
    /\ tcollected = {}
    /\ stats_list = <<>>
    /\ tprocessed = 0 /\ tcached = 0 /\ terrors = 0
    /\ summary = NoSummary
    /\ rerun = FALSE
    /\ prevSummary = <<>>

\* The caller builds the list, one record after another.
SummaryRecord(record) ==
    /\ trendPc = "records"
    /\ Len(stats_list) < MaxRecords
    /\ stats_list' = Append(stats_list, record)
    /\ UNCHANGED <<batchVars, loadVars, walkVars, cleanVars, rerun, prevSummary,
                   entry, force_option, force_reprocess, sibling, siblingStart,
                   tjob, trendPc, tcollected, tprocessed, tcached, terrors,
                   summary>>

\* trend_processor.py 315-418, called with the list
SummaryGenerate ==
    /\ trendPc = "records"
    /\ summary' = GenerateSummary(stats_list)
    /\ trendPc' = "summarised"
    /\ UNCHANGED <<batchVars, loadVars, walkVars, cleanVars, rerun, prevSummary,
                   entry, force_option, force_reprocess, sibling, siblingStart,
                   tjob, tcollected, stats_list, tprocessed, tcached, terrors>>

NextSummary ==
    \/ \E record \in SummaryRecords : SummaryRecord(record)
    \/ SummaryGenerate

SpecSummary == InitSummary /\ [][NextSummary]_vars

\* ----------------------------------------------------------------------
\* Properties of the trend analysis (checked under SpecTrend)
\* ----------------------------------------------------------------------

TrendFinished(f) == tjob[f].pc \in {"returned", "raised"}

\* C21: _should_process_file returns False (the cache is reused, no gateway
\* call is made) exactly when force_reprocess is off and the sibling
\* {name}.json exists with a modification time not older than the markdown
\* file's; in every other case it returns True.
C21_CacheReusedExactlyWhenFresh ==
    \A f \in FileIds :
        tjob[f].should # "unknown" =>
            /\ (tjob[f].should = "no") <=>
                   (/\ ~force_reprocess
                    /\ siblingStart[f].exists
                    /\ siblingStart[f].mtime >= 1)
            /\ tjob[f].should = "no" => tjob[f].calls = 0
            /\ tjob[f].should = "yes" => tjob[f].calls = 1

\* A sibling as old as the markdown file was reused, and an older one was not.
C21_Witness ==
    \E f, g \in FileIds :
        /\ siblingStart[f].exists /\ siblingStart[f].mtime = 1
        /\ tjob[f].pc = "returned" /\ tjob[f].stats.cached
        /\ siblingStart[g].exists /\ siblingStart[g].mtime = 0
        /\ tjob[g].should = "yes"

\* C22: in a trend run started through analyze_trends the processor's
\* force_reprocess equals the force-reprocess option, so with the option set
\* no cached result is reused.
C22_ForceOptionReachesTheProcessor ==
    (entry = "analyze_trends" /\ trendPc # "construct") =>
        /\ force_reprocess = force_option
        /\ force_option => \A f \in FileIds : tjob[f].should # "no"

\* C23: an item whose fresh sibling cannot be read is reprocessed through the
\* gateway and contributes a record.
C23_CorruptCacheIsReprocessed ==
    \A f \in FileIds :
        (/\ ~force_reprocess
         /\ siblingStart[f].exists
         /\ siblingStart[f].mtime >= MtimeMd
         /\ ~siblingStart[f].readable
         /\ TrendFinished(f)) =>
            tjob[f].pc = "returned" /\ tjob[f].calls = 1

\* C24: whatever the gateway returned or raised, _analyze_with_openai returns
\* a record with loop_completion, breakdown and insights, and that record is
\* what the sibling holds.
C24_AnalysisIsAlwaysStructured ==
    \A f \in FileIds :
        (tjob[f].calls = 1 /\ TrendFinished(f)) =>
            /\ AnalysisKeys \subseteq tjob[f].analysis.keys
            /\ sibling[f].value = tjob[f].analysis

\* C25: the summary of a directory with N markdown files counts N chats.
C25_EveryFileIsCounted ==
    trendPc = "done" => summary.total = Cardinality(FileIds)

CanonicalBuckets ==
    {"insufficient_information", "unclear_requirements", "invalid_format",
     "timeout", "unknown", "none"}

\* C26: every record's failure_reason falls into one canonical bucket, and
\* the summary counts the failure reasons (per bucket).
C26_FailureReasonsCountedPerBucket ==
    trendPc = "done" =>
        /\ \A i \in DOMAIN stats_list :
               normalize_reason(stats_list[i].failure_reason).bucket
                   \in CanonicalBuckets
        /\ summary.engaged > 0 => "failure_reason" \in summary.reads

\* ----------------------------------------------------------------------
\* Collection, counters and paths of the batch (checked under Spec)
\* ----------------------------------------------------------------------

\* C32: a job whose gateway call has not returned does not delay the
\* collection of the other jobs: while the batch is collecting, every job that
\* has returned its outcome and is not yet tallied can be tallied at once,
\* whatever the other jobs are doing.
C32_StuckJobDoesNotBlockCollection ==
    \A c \in ChatIds :
        (/\ mode = "batch"
         /\ mainPc = "collect"
         /\ job[c].pc = "returned"
         /\ c \notin collected) => ENABLED Collect(c)

\* C32 witness: a job submitted after a job that is still waiting for the
\* gateway (for the longest wait followed) has been tallied.
C32_Witness ==
    \E c, d \in ChatIds :
        /\ d < c
        /\ mainPc = "collect"
        /\ job[d].pc = "calling"
        /\ job[d].waited = 120
        /\ c \in collected
        /\ job[c].status \in Statuses
        /\ completed = Cardinality(collected)
        /\ successful + skipped + format_errors + api_errors = completed

\* C33: the outcome counters are modified only by the collecting thread, once
\* per finished job: a step of a worker leaves them alone, and every step
\* that changes them collects one finished job not collected before, adds one
\* to completed and one to the counter of the job's status (the counters
\* start again from zero when the method is called again).
C33_CountersChangeOnlyOnCollection ==
    [][LET NewCall == mainPc \in {"done", "raised"} /\ mainPc' = "submit"
           tallied == successful + skipped + format_errors + api_errors
           talliedNext == successful' + skipped' + format_errors' + api_errors'
       IN  /\ (job' # job /\ ~NewCall) => counters' = counters
           /\ (counters' # counters /\ ~NewCall) =>
                 \E c \in ChatIds :
                    /\ c \notin collected
                    /\ collected' = collected \cup {c}
                    /\ job[c].pc \in {"returned", "raised"}
                    /\ completed' = completed + 1
                    /\ successful' >= successful /\ skipped' >= skipped
                    /\ format_errors' >= format_errors /\ api_errors' >= api_errors
                    /\ talliedNext = tallied +
                          (IF job[c].status \in
                                {"success", "skipped", "format_error", "api_error"}
                           THEN 1 ELSE 0)]_vars

\* C33 witness: a job has been tallied while a worker is in the middle of
\* another job, between the write of the temporary file and its validation.
C33_Witness ==
    \E c, d \in ChatIds :
        /\ c \in collected
        /\ job[d].pc \in {"written", "validated"}
        /\ completed = 1
        /\ successful + skipped + format_errors + api_errors = 1

\* C34: no two jobs ever write the same path: every step that changes a file
\* is the step of one job, and the file is that job's own {chat_id}.md or
\* {chat_id}.md.tmp; the jobs are one per chat id, so the paths written by two
\* different jobs are disjoint.
C34_JobsWriteDisjointPaths ==
    [][\A p \in DOMAIN fs :
          fs'[p] # fs[p] =>
              \E c \in ChatIds :
                  /\ job'[c] # job[c]
                  /\ \A d \in ChatIds \ {c} : job'[d] = job[d]
                  /\ p \in {<<c, "md">>, <<c, "md", "tmp">>}]_vars

\* C34 witness: two jobs of one batch have each written their temporary file
\* and neither has renamed or removed it yet.
C34_Witness ==
    \E c, d \in ChatIds :
        /\ c # d
        /\ mode = "batch"
        /\ job[c].pc \in {"written", "validated"}
        /\ job[d].pc \in {"written", "validated"}
        /\ fs[<<c, "md", "tmp">>] = job[c].analysis
        /\ fs[<<d, "md", "tmp">>] = job[d].analysis

\* ----------------------------------------------------------------------
\* The second run of the trend analysis (checked under SpecTrend)
\* ----------------------------------------------------------------------

\* C35: a gateway failure is recoverable by running again: in the next run
\* without force_reprocess, the markdown file unchanged, the gateway is called
\* again for an item whose sibling holds the default record the first run
\* wrote for the failure, and the record is not served from the cache.
C35_GatewayFailureIsRetriedOnRerun ==
    \A f \in FileIds :
        (/\ rerun
         /\ ~force_reprocess
         /\ siblingStart[f].exists
         /\ siblingStart[f].mtime = MtimeNow
         /\ siblingStart[f].value = DefaultAnalysis(ReasonAnalysisError)
         /\ TrendFinished(f)) =>
            tjob[f].calls = 1 /\ ~tjob[f].stats.cached

\* C38: when every record was derived through the gateway in the first run
\* and is read from its sibling in the second, the second run returns the
\* summary the first run returned.
C38_CachedSummaryEqualsFirstSummary ==
    (/\ rerun
     /\ trendPc = "done"
     /\ \A f \in FileIds :
            siblingStart[f].mtime = MtimeNow /\ tjob[f].should = "no") =>
        summary = prevSummary

\* ----------------------------------------------------------------------
\* Termination of the batch (checked under SpecFair)
\* ----------------------------------------------------------------------

\* C36: provided every gateway call eventually returns or raises, every job
\* submitted by the batch eventually reaches a terminal outcome and the batch
\* finishes, and it finishes only after all submitted jobs have reported an
\* outcome.
C36_BatchFinishesWithAllOutcomes ==
    mode = "batch" =>
        /\ <>(mainPc = "done" /\ \A c \in ChatIds : job[c].status \in Statuses)
        /\ [](mainPc = "done" =>
                 \A c \in ChatIds : job[c].pc = "returned" /\ c \in collected)

\* ----------------------------------------------------------------------
\* Cleaning of the report directory (checked under SpecClean)
\* ----------------------------------------------------------------------

\* C37: verify_and_clean_md_files deletes exactly the .md files that fail the
\* validation and leaves every valid .md file and every other file in place;
\* it returns the names of all invalid files and their number, lists a file
\* whose removal failed (the file then remains), and returns ([], 0) for a
\* directory that does not exist.
C37_OnlyInvalidMarkdownIsRemoved ==
    cleanPc = "done" =>
        IF ~dirExists
        THEN cleanRet = [invalid_files |-> <<>>, count |-> 0] /\ fs = fsStart
        ELSE LET names == cleanRet.invalid_files
                 Listed(p) == \E i \in 1..Len(names) : names[i] = p
             IN  /\ cleanRet.count = Len(names)
                 /\ \A i, j \in 1..Len(names) : i # j => names[i] # names[j]
                 /\ \A c \in ChatIds :
                       LET md == <<c, "md">>
                           tmp == <<c, "md", "tmp">>
                       IN  /\ fs[tmp] = fsStart[tmp]
                           /\ ~Listed(tmp)
                           /\ (WellFormed(fsStart[md]) \/ fsStart[md].kind = "absent")
                                 => fs[md] = fsStart[md] /\ ~Listed(md)
                           /\ (~WellFormed(fsStart[md]) /\ fsStart[md].kind # "absent")
                                 => /\ Listed(md)
                                    /\ IF md \in remove_failed
                                       THEN fs[md] = fsStart[md]
                                       ELSE fs[md].kind = "absent"

\* C37 witness: a directory with a valid report, an invalid one and a
\* leftover temporary file was cleaned: the invalid report is gone and
\* listed, the other two files are in place.
C37_Witness ==
    \E c, d \in ChatIds :
        /\ cleanPc = "done"
        /\ WellFormed(fsStart[<<c, "md">>]) /\ fs[<<c, "md">>] = fsStart[<<c, "md">>]
        /\ fsStart[<<d, "md">>].kind = "text" /\ fs[<<d, "md">>].kind = "absent"
        /\ fs[<<d, "md", "tmp">>].kind = "text"
        /\ cleanRet = [invalid_files |-> << <<d, "md">> >>, count |-> 1]

\* C39: for every list of records _generate_summary divides by no zero, and
\* its counts are consistent: the step-one exits and the engaged conversations
\* add up to the total analysed, the completed count and the partnership
\* count are at most the engaged conversations, and the per-step exit counts
\* add up to the engaged records that are not completed.
C39_SummaryCountsAreConsistent ==
    trendPc = "summarised" =>
        LET engaged_chats ==
                {i \in DOMAIN stats_list : ~stats_list[i].exit_at_step_one}
            not_completed ==
                {i \in engaged_chats : stats_list[i].completed # 1}
        IN  /\ \A r \in DOMAIN summary.rates :
                  summary.rates[r] >= 0 /\ summary.rates[r] <= 100
            /\ summary.total = Len(stats_list)
            /\ summary.step_one_exits + summary.engaged = summary.total
            /\ summary.engaged = Cardinality(engaged_chats)
            /\ summary.completed <= summary.engaged
            /\ summary.partnerships <= summary.engaged
            /\ summary.exit_steps["none"] + summary.exit_steps["step_1"]
                 + summary.exit_steps["step_3"] + summary.exit_steps["unknown"]
               = Cardinality(not_completed)

\* C39 witness: a summary of a list holding a step-one exit, an engaged
\* completed record and an engaged record that stopped, where every engaged
\* record is a partnership (the divisor of the non-partnership rate is zero).
C39_Witness ==
    /\ trendPc = "summarised"
    /\ summary.step_one_exits >= 1
    /\ summary.completed >= 1
    /\ summary.exit_steps["step_3"] >= 1
    /\ summary.partnerships = summary.engaged

====
